---- MODULE Spec2Model ----
(***************************************************************************)
(* MindLens: the resilient ingestion-and-scoring core.                     *)
(*                                                                         *)
(* State: the two Supabase tables used by the core (habits, stress_scan),  *)
(* the two JSON files of OfflineStorage (habits.json, stress_scans.json),  *)
(* the ModelManager singleton, the uuid source, and a record of the last   *)
(* call (its inputs, the outcome of the primary store, its response).      *)
(*                                                                         *)
(* Encodings.  A text (exception type name, exception message) is a        *)
(* sequence of tokens; "in" is contiguous-subsequence.  Fractions are      *)
(* integers in hundredths (jaw_clench_score 50 is 0.5, mouth_open 3 is     *)
(* 0.03).  Python None is Null for numbers and "null" for strings.  An ISO *)
(* timestamp is a positive integer, ordered as the strings are; a dict     *)
(* without a key has NoKey (NoKeyStr) there, and the sort key "" of        *)
(* x.get(key, "") is EmptyStr, which is below every timestamp.             *)
(***************************************************************************)
EXTENDS Integers, Sequences, FiniteSets, TLC

VARIABLES
    supabase_habits,      \* rows of table "habits", in insertion order
    supabase_stress_scan, \* rows of table "stress_scan", in insertion order
    habits_file,          \* offline_data/habits.json
    scans_file,           \* offline_data/stress_scans.json
    models_loaded,        \* ModelManager.models_loaded
    stress_model_bundle,  \* ModelManager.stress_model_bundle is truthy
    health_model,         \* ModelManager.health_model: "none", "ok", "throws"
    next_uuid,            \* the next value of uuid.uuid4()
    faulty,               \* the local medium may fail reads and writes
    created_habits,       \* the records create_habit has returned, in order
    created_scans,        \* the records create_scan has returned, in order
    call,                 \* the last call: inputs, primary outcome, response
    scored,               \* the scoring calls made so far: input and result
    appends               \* per worker, the create_* call it is inside

vars == <<supabase_habits, supabase_stress_scan, habits_file, scans_file,
          models_loaded, stress_model_bundle, health_model, next_uuid,
          faulty, created_habits, created_scans, call, scored, appends>>

----------------------------------------------------------------------------
(* Bounds *)

MaxId == 2        \* identifiers handed out by uuid4 in one run
MaxTime == 2      \* distinct instants returned by iso_now()
MaxLimit == 2     \* the largest ?limit= a caller passes

Null == -1      \* None, for a number
NoKey == -2     \* the key is not in the dict, for a number or a timestamp
EmptyStr == 0   \* the string "", as a sort key
NullStr == "null"      \* None, for a string
NoKeyStr == "absent"   \* the key is not in the dict, for a string

TimeStamps == 1..MaxTime
\* the query parameter is any int: a negative one, zero, and up to MaxLimit
Limits == {-1} \cup (0..MaxLimit)

----------------------------------------------------------------------------
(* Errors raised by the Supabase client and by the local medium *)

NoError == [type |-> <<>>, msg |-> <<>>]

\* httpx.ConnectError: [Errno 11001] getaddrinfo failed
ConnectError == [type |-> <<"Connect", "Error">>, msg |-> <<"getaddrinfo", "failed">>]
\* postgrest APIError: duplicate key value violates unique constraint
APIError == [type |-> <<"API", "Error">>, msg |-> <<"duplicate", "key">>]
\* PermissionError: [Errno 13] Permission denied
PermissionError == [type |-> <<"Permission", "Error">>, msg |-> <<"Permission", "denied">>]
\* TimeoutError: [Errno 110] Connection timed out (a network file system)
TimeoutError == [type |-> <<"Timeout", "Error">>, msg |-> <<"Connection", "timed", "out">>]

PrimaryErrors == {ConnectError, APIError}
PrimaryOutcomes == {NoError} \cup PrimaryErrors

----------------------------------------------------------------------------
(* offline_storage.is_network_error *)

network_indicators ==
    << <<"Connect", "Error">>, <<"getaddrinfo">>, <<"httpx">>,
       <<"Connection", "Error">>, <<"Timeout", "Error">>,
       <<"Network", "Error">>, <<"DNS", "Error">> >>

\* Python's "indicator in text"
In(indicator, text) ==
    \E i \in 1..(Len(text) - Len(indicator) + 1) :
        SubSeq(text, i, i + Len(indicator) - 1) = indicator

\* mutant: only the type name is searched
is_network_error_by_type(exception) ==
    \E k \in 1..Len(network_indicators) :
        In(network_indicators[k], exception.type)

is_network_error(exception) ==
    LET error_msg == exception.msg
        error_type == exception.type
    IN  \E k \in 1..Len(network_indicators) :
            \/ In(network_indicators[k], error_type)
            \/ In(network_indicators[k], error_msg)

----------------------------------------------------------------------------
(* offline_storage.OfflineStorage *)

\* a file is parseable JSON holding a list, or it is not
EmptyFile == [ok |-> TRUE, data |-> <<>>]
CorruptFile == [ok |-> FALSE, data |-> <<>>]

\* what the local medium does during one call of a storage method:
\* whether open/json.load succeeds, what open/json.dump raises, and whether
\* a failed write had already truncated the file
Healthy == [readOk |-> TRUE, werr |-> NoError, trunc |-> FALSE]
Media ==
    IF faulty
    THEN {Healthy}
         \cup {[readOk |-> FALSE, werr |-> NoError, trunc |-> FALSE]}
         \cup [readOk : {TRUE}, werr : {PermissionError, TimeoutError}, trunc : BOOLEAN]
    ELSE {Healthy}

\* mutant: every read fails, so every file reads as []
_read_file_failed(file, env) == <<>>

_read_file(file, env) ==
    IF file.ok /\ env.readOk THEN file.data ELSE <<>>

\* mutant: the write is skipped
_write_file_skipped(file, data, env) == [file |-> file, exc |-> NoError]

\* the file after _write_file(filepath, data), and what it raised
_write_file(file, data, env) ==
    IF env.werr = NoError
    THEN [file |-> [ok |-> TRUE, data |-> data], exc |-> NoError]
    ELSE [file |-> IF env.trunc THEN CorruptFile ELSE file, exc |-> env.werr]

\* mutant: the list is written back without the new record
OfflineStorage_create_habit_lost(file, habit_data, env) ==
    _write_file(file, _read_file(file, env), env)

OfflineStorage_create_habit(file, habit_data, env) ==
    LET habits == _read_file(file, env)
    IN  _write_file(file, Append(habits, habit_data), env)

\* mutant: the new record replaces the records stored before
OfflineStorage_create_scan_replacing(file, scan_data, env) ==
    _write_file(file, <<scan_data>>, env)

OfflineStorage_create_scan(file, scan_data, env) ==
    LET scans == _read_file(file, env)
    IN  _write_file(file, Append(scans, scan_data), env)

\* x.get(key, ""), the sort key
sort_key(x, key) == IF x[key] = NoKey THEN EmptyStr ELSE x[key]

\* one step of the sort: x goes after the elements that are not below it
InsertDesc(s, x, key) ==
    LET p == Cardinality({j \in 1..Len(s) : sort_key(s[j], key) >= sort_key(x, key)})
    IN  SubSeq(s, 1, p) \o <<x>> \o SubSeq(s, p + 1, Len(s))

\* mutant: the list is not sorted
SortDesc_unsorted(xs, key) == xs

\* list.sort(key=lambda x: x.get(key, ""), reverse=True): stable, descending
SortDesc(xs, key) ==
    LET ins[i \in 0..Len(xs)] ==
            IF i = 0 THEN <<>> ELSE InsertDesc(ins[i - 1], xs[i], key)
    IN  ins[Len(xs)]

\* xs[:limit]
Slice(xs, limit) ==
    IF limit >= 0
    THEN SubSeq(xs, 1, IF limit < Len(xs) THEN limit ELSE Len(xs))
    ELSE SubSeq(xs, 1, Len(xs) + limit)

OfflineStorage_get_habits(file, limit, env) ==
    LET habits == _read_file(file, env)
    IN  Slice(SortDesc(habits, "created_at"), limit)

OfflineStorage_get_scans(file, limit, env) ==
    LET scans == _read_file(file, env)
    IN  Slice(SortDesc(scans, "scanned_at"), limit)

OfflineStorage_get_latest_scan(file, env) ==
    LET scans == OfflineStorage_get_scans(file, 1, env)
    IN  IF scans # <<>> THEN <<scans[1]>> ELSE <<>>

----------------------------------------------------------------------------
(* model_manager.ModelManager *)

\* dict.get(key, default)
Get(v, default) == IF v = NoKey THEN default ELSE v
GetStr(v, default) == IF v = NoKeyStr THEN default ELSE v

\* the states load_models() can leave the singleton in
ModelStates ==
    { [stress |-> FALSE, health |-> "none", loaded |-> FALSE],   \* stress artifact missing
      [stress |-> TRUE, health |-> "none", loaded |-> FALSE],    \* health artifact missing
      [stress |-> TRUE, health |-> "ok", loaded |-> TRUE],
      [stress |-> TRUE, health |-> "throws", loaded |-> TRUE] }  \* predict() rejects the frame

\* emotion_scores.get(emotion, 30)
emotion_scores(emotion) ==
    CASE emotion = "happy" -> 10
      [] emotion = "neutral" -> 30
      [] emotion = "sad" -> 50
      [] emotion = "fear" -> 70
      [] emotion = "angry" -> 80
      [] OTHER -> 30

\* posture_scores.get(posture, 15)
posture_scores(posture) ==
    CASE posture = "good" -> 5
      [] posture = "fair" -> 15
      [] posture = "poor" -> 25
      [] posture = "unknown" -> 15
      [] OTHER -> 15

\* stress_score in tenths of a point
stress_score(emotion, jaw_tension, posture, mouth_open, eyebrow_raise) ==
    emotion_scores(emotion) * 10
    + jaw_tension * 3
    + posture_scores(posture) * 10
    + (IF mouth_open > 3 THEN 50 ELSE 0)
    + (IF eyebrow_raise > 10 THEN 50 ELSE 0)

Abs(x) == IF x < 0 THEN -x ELSE x
Min(a, b) == IF a < b THEN a ELSE b

\* mutant: a score on a boundary goes to the lower tier
stress_bucket_ties_low(score) ==
    IF score <= 350
    THEN [stress_prediction |-> "low",
          stress_confidence |-> Min(950, 750 + Abs(350 - score))]
    ELSE IF score <= 600
    THEN [stress_prediction |-> "medium",
          stress_confidence |-> Min(950, 700 + Abs(475 - score))]
    ELSE [stress_prediction |-> "high",
          stress_confidence |-> Min(950, 720 + (score - 600))]

\* prediction and confidence (in thousandths) for a score in tenths
stress_bucket(score) ==
    IF score < 350
    THEN [stress_prediction |-> "low",
          stress_confidence |-> Min(950, 750 + (350 - score))]
    ELSE IF score < 600
    THEN [stress_prediction |-> "medium",
          stress_confidence |-> Min(950, 700 + Abs(475 - score))]
    ELSE [stress_prediction |-> "high",
          stress_confidence |-> Min(950, 720 + (score - 600))]

\* mutant: the result drifts with the number of calls made before
predict_stress_drifting(feature_dict) ==
    [stress_prediction |-> "medium",
     stress_confidence |-> 700 + Len(scored.stress)]

predict_stress(feature_dict) ==
    IF ~models_loaded \/ ~stress_model_bundle
    THEN [stress_prediction |-> "unknown", stress_confidence |-> 0]
    ELSE LET emotion == GetStr(feature_dict.emotion, "neutral")
             jaw_tension == Get(feature_dict.jaw_clench_score, 0)
             posture == GetStr(feature_dict.posture_quality, "unknown")
             mouth_open == Get(feature_dict.mouth_open, 0)
             eyebrow_raise == Get(feature_dict.eyebrow_raise, 0)
             \* None * 100 and None > 0.03 raise TypeError
             type_error == jaw_tension = Null \/ mouth_open = Null
                           \/ eyebrow_raise = Null
         IN  IF type_error
             THEN [stress_prediction |-> "medium", stress_confidence |-> 0]
             ELSE stress_bucket(stress_score(emotion, jaw_tension, posture,
                                             mouth_open, eyebrow_raise))

\* model.predict(df)[0] of the health artifact, an opaque regression
model_predict(habit_inputs) == 40 + 5 * Get(habit_inputs.sleep_hours, 7)

\* mutant: no default when the call of the model throws
predict_wellness_unguarded(habit_inputs) ==
    IF ~models_loaded \/ health_model = "none"
    THEN [wellness_score |-> 50, wellness_confidence |-> 0]
    ELSE [wellness_score |-> model_predict(habit_inputs), wellness_confidence |-> 900]

predict_wellness(habit_inputs) ==
    IF ~models_loaded \/ health_model = "none"
    THEN [wellness_score |-> 50, wellness_confidence |-> 0]
    ELSE IF health_model = "throws"
    THEN [wellness_score |-> 50, wellness_confidence |-> 0]
    ELSE [wellness_score |-> model_predict(habit_inputs), wellness_confidence |-> 900]

----------------------------------------------------------------------------
(* The record of a call *)

NoCall ==
    [op |-> "init", limit |-> 0, user_id |-> "", perr |-> NoError,
     sent |-> <<>>,        \* the record handed to the Supabase insert
     accepted |-> {},      \* the stores that accepted a record in this call
     events |-> <<>>,      \* the calls made, in order
     raised |-> FALSE,     \* an exception left the handler
     status |-> 200, success |-> FALSE, message |-> "", id |-> Null,
     data |-> <<>>,        \* the "data" list of the response
     result |-> <<>>]      \* the list an OfflineStorage method returned

----------------------------------------------------------------------------
(* app.habits: POST /submit-habits *)

\* HabitSubmission, reduced to the fields the core reads
HabitSubmissions == [user_id : {"u1"}, sleep_hours : {6}]

\* mutant: the error path also answers success
HabitResponse_always_ok(success, message, habit_id, wellness_score) ==
    [success |-> TRUE, message |-> message, habit_id |-> habit_id]

\* models.HabitResponse has no wellness_score field: pydantic drops it
HabitResponse(success, message, habit_id, wellness_score) ==
    [success |-> success, message |-> message, habit_id |-> habit_id]

habits_body(data, id, now) ==
    [id |-> id, created_at |-> now, user_id |-> data.user_id,
     sleep_hours |-> data.sleep_hours]

\* the stores, the uuid source and the call record after habits(data);
\* now/env belong to the inner path, now2/env2 to the outer handler
habits_run(data, now, perr, env, now2, env2) ==
    LET body == habits_body(data, next_uuid, now)
        inserted == perr = NoError
        fell_back == ~inserted /\ is_network_error(perr)
        fb == OfflineStorage_create_habit(habits_file, body, env)
        file1 == IF fell_back THEN fb.file ELSE habits_file
        \* the exception that reaches "except Exception as e"
        e == IF inserted THEN NoError
             ELSE IF fell_back THEN fb.exc
             ELSE perr
        prediction == predict_wellness(body)
        base == [NoCall EXCEPT !.op = "habits", !.user_id = data.user_id,
                               !.perr = perr, !.sent = <<body>>]
        failure == HabitResponse(FALSE, "Error saving habit", Null, Null)
    IN  IF e = NoError
        THEN LET r == HabitResponse(TRUE, "Saved successfully", body.id,
                                    prediction.wellness_score)
             IN  [supabase |-> IF inserted THEN Append(supabase_habits, body)
                               ELSE supabase_habits,
                  file |-> file1,
                  created |-> IF fell_back THEN <<body>> ELSE <<>>,
                  uuid |-> next_uuid + 1,
                  call |-> [base EXCEPT
                      !.accepted = IF inserted THEN {"primary"} ELSE {"fallback"},
                      !.events = <<"insert">>
                                 \o (IF fell_back THEN <<"create_habit">> ELSE <<>>)
                                 \o <<"predict_wellness", "return">>,
                      !.success = r.success, !.message = r.message,
                      !.id = r.habit_id]]
        ELSE IF is_network_error(e)
        THEN LET body2 == habits_body(data, next_uuid + 1, now2)
                 fb2 == OfflineStorage_create_habit(file1, body2, env2)
                 prediction2 == predict_wellness(body2)
                 r == IF fb2.exc = NoError
                      THEN HabitResponse(TRUE, "Saved offline (no internet connection)",
                                         body2.id, prediction2.wellness_score)
                      ELSE failure
             IN  [supabase |-> supabase_habits,
                  file |-> fb2.file,
                  created |-> IF fb2.exc = NoError THEN <<body2>> ELSE <<>>,
                  uuid |-> next_uuid + 2,
                  call |-> [base EXCEPT
                      !.accepted = IF fb2.exc = NoError THEN {"fallback"} ELSE {},
                      !.events = <<"insert", "create_habit", "create_habit">>
                                 \o (IF fb2.exc = NoError
                                     THEN <<"predict_wellness">> ELSE <<>>)
                                 \o <<"return">>,
                      !.success = r.success, !.message = r.message,
                      !.id = r.habit_id]]
        ELSE [supabase |-> supabase_habits,
              file |-> file1,
              created |-> <<>>,
              uuid |-> next_uuid + 1,
              call |-> [base EXCEPT
                  !.events = <<"insert">>
                             \o (IF fell_back THEN <<"create_habit">> ELSE <<>>)
                             \o <<"return">>,
                  !.success = failure.success, !.message = failure.message,
                  !.id = failure.habit_id]]

habits ==
    /\ next_uuid <= MaxId
    /\ \E data \in HabitSubmissions, now \in TimeStamps, perr \in PrimaryOutcomes,
          env \in Media, now2 \in TimeStamps, env2 \in Media :
          LET r == habits_run(data, now, perr, env, now2, env2)
          IN  /\ supabase_habits' = r.supabase
              /\ habits_file' = r.file
              /\ created_habits' = created_habits \o r.created
              /\ next_uuid' = r.uuid
              /\ call' = r.call
    /\ UNCHANGED <<supabase_stress_scan, scans_file, models_loaded,
                   stress_model_bundle, health_model, faulty, created_scans,
                   scored, appends>>

----------------------------------------------------------------------------
(* app.scan: POST /scan *)

\* what stress_analyzer.extract_features(img) returns (an external
\* collaborator): a dict of named features, some keys possibly missing
Calm ==
    [emotion |-> "happy", emotion_confidence |-> 90, mouth_open |-> 0,
     eyebrow_raise |-> 0, jaw_clench_score |-> 0, posture_quality |-> "good"]
Tense ==
    [emotion |-> "angry", emotion_confidence |-> 80, mouth_open |-> 5,
     eyebrow_raise |-> 20, jaw_clench_score |-> 50, posture_quality |-> "poor"]
Sparse ==
    [emotion |-> NoKeyStr, emotion_confidence |-> NoKey, mouth_open |-> NoKey,
     eyebrow_raise |-> NoKey, jaw_clench_score |-> NoKey,
     posture_quality |-> NoKeyStr]
\* a row whose nullable columns are null
Nulls ==
    [emotion |-> NullStr, emotion_confidence |-> Null, mouth_open |-> Null,
     eyebrow_raise |-> Null, jaw_clench_score |-> Null,
     posture_quality |-> NullStr]

ExtractedFeatures == {Tense, Sparse}
UserIds == {"", "u1"}    \* the form field user_id; "" when it is not sent

PredictionFields == {"stressPrediction", "stressConfidence"}

\* response_data of scan()
scan_response_data(features, prediction, scan_id, now) ==
    [id |-> scan_id,
     emotion |-> GetStr(features.emotion, "neutral"),
     emotion_confidence |-> Get(features.emotion_confidence, 50),
     mouth_open |-> Get(features.mouth_open, 0),
     eyebrow_raise |-> Get(features.eyebrow_raise, 0),
     jaw_clench_score |-> Get(features.jaw_clench_score, 0),
     posture_quality |-> GetStr(features.posture_quality, "unknown"),
     scanned_at |-> now,
     stressPrediction |-> prediction.stress_prediction,
     stressConfidence |-> prediction.stress_confidence]

\* mutant: the prediction fields are not popped
scan_entry_kept(response_data, user_id) ==
    [k \in (DOMAIN response_data) \cup {"user_id"} |->
        IF k = "user_id" THEN user_id ELSE response_data[k]]

\* entry = response_data.copy(); entry["user_id"] = user_id; entry.pop(...)
scan_entry(response_data, user_id) ==
    [k \in ((DOMAIN response_data) \cup {"user_id"}) \ PredictionFields |->
        IF k = "user_id" THEN user_id ELSE response_data[k]]

\* extracted: <<features>>, or <<>> when decoding or extraction raised
scan_run(extracted, user_id, now, perr) ==
    LET base == [NoCall EXCEPT !.op = "scan", !.user_id = user_id]
    IN  IF extracted = <<>>
        THEN [supabase |-> supabase_stress_scan, uuid |-> next_uuid,
              call |-> [base EXCEPT !.events = <<"return">>,
                                    !.success = FALSE,
                                    !.message = "Scan failed"]]
        ELSE LET features == extracted[1]
                 prediction == predict_stress(features)
                 scan_id == next_uuid
                 response_data == scan_response_data(features, prediction,
                                                     scan_id, now)
                 entry == scan_entry(response_data, user_id)
                 attempted == user_id # ""
                 inserted == attempted /\ perr = NoError
             IN  [supabase |-> IF inserted
                               THEN Append(supabase_stress_scan, entry)
                               ELSE supabase_stress_scan,
                  uuid |-> next_uuid + 1,
                  call |-> [base EXCEPT
                      !.perr = IF attempted THEN perr ELSE NoError,
                      !.sent = IF attempted THEN <<entry>> ELSE <<>>,
                      !.accepted = IF inserted THEN {"primary"} ELSE {},
                      !.events = <<"predict_stress">>
                                 \o (IF attempted THEN <<"insert">> ELSE <<>>)
                                 \o <<"return">>,
                      !.success = TRUE,
                      !.id = response_data.id,
                      !.data = <<response_data>>]]

scan ==
    /\ next_uuid <= MaxId
    /\ \E extracted \in {<<>>} \cup {<<f>> : f \in ExtractedFeatures},
          user_id \in UserIds, now \in TimeStamps, perr \in PrimaryOutcomes :
          LET r == scan_run(extracted, user_id, now, perr)
          IN  /\ supabase_stress_scan' = r.supabase
              /\ next_uuid' = r.uuid
              /\ call' = r.call
    /\ UNCHANGED <<supabase_habits, habits_file, scans_file, models_loaded,
                   stress_model_bundle, health_model, faulty, created_habits,
                   created_scans,
                   scored, appends>>

----------------------------------------------------------------------------
(* The Supabase query .select("*").order(key, desc=True).limit(n).execute() *)

\* Postgres: LIMIT must not be negative
RangeError == [type |-> <<"API", "Error">>, msg |-> <<"LIMIT", "must", "not", "be", "negative">>]

\* the error the query raises: the client's own, or the server's on limit < 0
query_error(perr, limit) ==
    IF perr = NoError /\ limit < 0 THEN RangeError ELSE perr

\* mutant: the records of the local file are merged into the rows
supabase_select_merged(table, key, limit) ==
    LET file == IF key = "created_at" THEN habits_file ELSE scans_file
    IN  Slice(SortDesc(table \o file.data, key), limit)

supabase_select(table, key, limit) == Slice(SortDesc(table, key), limit)

----------------------------------------------------------------------------
(* app.get_scans: GET /api/scans *)

\* scan.get(key): None when the key is missing
GetOrNone(v) == IF v = NoKey THEN Null ELSE v
GetStrOrNone(v) == IF v = NoKeyStr THEN NullStr ELSE v

\* mutant: a prediction that is neither low nor medium nor high counts as medium
overall_stress_unknown_medium(prediction) ==
    IF prediction.stress_prediction = "low" THEN 20
    ELSE IF prediction.stress_prediction = "high" THEN 80
    ELSE 50

\* 20.0 if low else 50.0 if medium else 80.0
overall_stress(prediction) ==
    IF prediction.stress_prediction = "low" THEN 20
    ELSE IF prediction.stress_prediction = "medium" THEN 50
    ELSE 80

scan_features(scan_row) ==
    [emotion |-> GetStrOrNone(scan_row.emotion),
     emotion_confidence |-> GetOrNone(scan_row.emotion_confidence),
     mouth_open |-> GetOrNone(scan_row.mouth_open),
     eyebrow_raise |-> GetOrNone(scan_row.eyebrow_raise),
     jaw_clench_score |-> GetOrNone(scan_row.jaw_clench_score),
     posture_quality |-> GetStrOrNone(scan_row.posture_quality)]

\* the formatted scan, as <<item>>, or <<>> when formatting raised
\* (float(None) is a TypeError) and the loop continued
format_scan(scan_row) ==
    LET prediction == predict_stress(scan_features(scan_row))
        posture_str == GetStr(scan_row.posture_quality, "unknown")
        posture_value == IF posture_str = "good" THEN 100
                         ELSE IF posture_str = "fair" THEN 60 ELSE 30
        emotion_confidence == Get(scan_row.emotion_confidence, 50)
        jaw == Get(scan_row.jaw_clench_score, 0)
    IN  IF emotion_confidence = Null \/ jaw = Null
        THEN <<>>
        ELSE << [id |-> scan_row.id,
                 emotion |-> GetStr(scan_row.emotion, "neutral"),
                 emotionConfidence |-> emotion_confidence,
                 jawTension |-> jaw,
                 postureQuality |-> posture_value,
                 overallStress |-> overall_stress(prediction),
                 stressPrediction |-> prediction.stress_prediction,
                 stressConfidence |-> prediction.stress_confidence,
                 timestamp |-> IF scan_row.scanned_at = NoKey THEN EmptyStr
                               ELSE scan_row.scanned_at] >>

format_scans(scans_data) ==
    LET out[i \in 0..Len(scans_data)] ==
            IF i = 0 THEN <<>> ELSE out[i - 1] \o format_scan(scans_data[i])
    IN  out[Len(scans_data)]

get_scans_run(limit, perr, env) ==
    LET db_error == query_error(perr, limit)
        offline == db_error # NoError /\ is_network_error(db_error)
        scans_data == IF db_error = NoError
                      THEN supabase_select(supabase_stress_scan, "scanned_at", limit)
                      ELSE IF offline
                      THEN OfflineStorage_get_scans(scans_file, limit, env)
                      ELSE <<>>
        base == [NoCall EXCEPT !.op = "get_scans", !.limit = limit,
                               !.perr = db_error, !.success = TRUE]
    IN  IF db_error # NoError /\ ~offline
        THEN \* re-raised, caught by the outer handler
             [base EXCEPT !.events = <<"select", "return">>]
        ELSE [base EXCEPT
                 !.events = <<"select">>
                            \o (IF offline THEN <<"get_scans">> ELSE <<>>)
                            \o [i \in 1..Len(scans_data) |-> "predict_stress"]
                            \o <<"return">>,
                 !.result = IF offline THEN scans_data ELSE <<>>,
                 !.data = format_scans(scans_data)]

get_scans ==
    /\ \E limit \in Limits, perr \in PrimaryOutcomes, env \in Media :
          call' = get_scans_run(limit, perr, env)
    /\ UNCHANGED <<supabase_habits, supabase_stress_scan, habits_file,
                   scans_file, models_loaded, stress_model_bundle,
                   health_model, next_uuid, faulty, created_habits,
                   created_scans,
                   scored, appends>>

----------------------------------------------------------------------------
(* app.get_habits: GET /api/habits *)

\* mutant: every exception is re-raised
IsHTTPException_any(e) == TRUE

\* fastapi.HTTPException is the one exception get_habits re-raises
IsHTTPException(e) == e.type = <<"HTTP", "Exception">>

Sum(xs) ==
    LET acc[i \in 0..Len(xs)] == IF i = 0 THEN 0 ELSE acc[i - 1] + xs[i]
    IN  acc[Len(xs)]

\* the response list; avgSleep is the pair <<total_sleep, len(habits_data)>>
format_habits(habits_data) ==
    LET total_sleep == Sum([i \in 1..Len(habits_data) |->
                               Get(habits_data[i].sleep_hours, 0)])
    IN  [i \in 1..Len(habits_data) |->
            [id |-> habits_data[i].id,
             sleepHours |-> GetOrNone(habits_data[i].sleep_hours),
             timestamp |-> habits_data[i].created_at,
             totalHabits |-> Len(habits_data),
             avgSleep |-> <<total_sleep, Len(habits_data)>>]]

\* habit["id"] / habit["created_at"] raise KeyError, sum() over None TypeError
format_habits_raises(habits_data) ==
    \E i \in 1..Len(habits_data) :
        \/ habits_data[i].id = NoKey
        \/ habits_data[i].created_at = NoKey
        \/ habits_data[i].sleep_hours = Null

get_habits_run(limit, perr, env) ==
    LET db_error == query_error(perr, limit)
        offline == db_error # NoError /\ is_network_error(db_error)
        habits_data == IF db_error = NoError
                       THEN supabase_select(supabase_habits, "created_at", limit)
                       ELSE IF offline
                       THEN OfflineStorage_get_habits(habits_file, limit, env)
                       ELSE <<>>
        base == [NoCall EXCEPT !.op = "get_habits", !.limit = limit,
                               !.perr = db_error, !.success = TRUE]
    IN  IF db_error # NoError /\ ~offline
        THEN IF IsHTTPException(db_error)
             THEN [base EXCEPT !.events = <<"select", "raise">>,
                               !.raised = TRUE, !.success = FALSE]
             ELSE [base EXCEPT !.events = <<"select", "return">>]
        ELSE [base EXCEPT
                 !.events = <<"select">>
                            \o (IF offline THEN <<"get_habits">> ELSE <<>>)
                            \o <<"return">>,
                 !.result = IF offline THEN habits_data ELSE <<>>,
                 !.data = IF format_habits_raises(habits_data) THEN <<>>
                          ELSE format_habits(habits_data)]

get_habits ==
    /\ \E limit \in Limits, perr \in PrimaryOutcomes, env \in Media :
          call' = get_habits_run(limit, perr, env)
    /\ UNCHANGED <<supabase_habits, supabase_stress_scan, habits_file,
                   scans_file, models_loaded, stress_model_bundle,
                   health_model, next_uuid, faulty, created_habits,
                   created_scans,
                   scored, appends>>

----------------------------------------------------------------------------
(* app.get_latest_scan: GET /api/latest-scan *)

\* scan_data["emotion"], ["emotion_confidence"], ["jaw_clench_score"] * 100,
\* ["scanned_at"]: KeyError on a missing key, TypeError on None * 100
latest_scan_raises(scan_data) ==
    \/ scan_data.emotion = NoKeyStr
    \/ scan_data.emotion_confidence = NoKey
    \/ scan_data.jaw_clench_score \in {NoKey, Null}
    \/ scan_data.scanned_at = NoKey

format_latest_scan(scan_data) ==
    LET prediction == predict_stress(scan_features(scan_data))
    IN  [id |-> scan_data.id,
         emotion |-> scan_data.emotion,
         emotionConfidence |-> scan_data.emotion_confidence,
         jawTension |-> scan_data.jaw_clench_score,
         postureQuality |-> IF scan_data.posture_quality = "good" THEN 100 ELSE 30,
         overallStress |-> overall_stress(prediction),
         stressPrediction |-> prediction.stress_prediction,
         stressConfidence |-> prediction.stress_confidence,
         timestamp |-> scan_data.scanned_at]

get_latest_scan_run(perr) ==
    LET rows == supabase_select(supabase_stress_scan, "scanned_at", 1)
        base == [NoCall EXCEPT !.op = "get_latest_scan", !.limit = 1,
                               !.perr = perr]
        http_500 == [base EXCEPT !.events = <<"select", "raise">>,
                                 !.raised = TRUE, !.status = 500,
                                 !.message = "Failed to fetch latest scan"]
    IN  IF perr # NoError THEN http_500
        ELSE IF rows = <<>>
        THEN [base EXCEPT !.events = <<"select", "return">>, !.success = TRUE]
        ELSE IF latest_scan_raises(rows[1]) THEN http_500
        ELSE [base EXCEPT !.events = <<"select", "predict_stress", "return">>,
                          !.success = TRUE, !.id = rows[1].id,
                          !.data = <<format_latest_scan(rows[1])>>]

get_latest_scan ==
    /\ \E perr \in PrimaryOutcomes : call' = get_latest_scan_run(perr)
    /\ UNCHANGED <<supabase_habits, supabase_stress_scan, habits_file,
                   scans_file, models_loaded, stress_model_bundle,
                   health_model, next_uuid, faulty, created_habits,
                   created_scans,
                   scored, appends>>

----------------------------------------------------------------------------
(* Calls on the global offline_storage instance *)

\* the dicts a caller hands to create_habit / create_scan
HabitRecords(id) ==
    [id : {id}, created_at : TimeStamps \cup {NoKey}, user_id : {"u1"},
     sleep_hours : {8}]

\* a complete scan row with or without its timestamp, and a row of nulls
ScanRecords(id) ==
    LET row(x, t) == scan_entry(scan_response_data(x, predict_stress(x), id, t), "u1")
    IN  {row(Calm, t) : t \in TimeStamps \cup {NoKey}} \cup {row(Nulls, 1)}

offline_create_habit ==
    /\ next_uuid <= MaxId
    /\ \E habit_data \in HabitRecords(next_uuid), env \in Media :
          LET r == OfflineStorage_create_habit(habits_file, habit_data, env)
          IN  /\ habits_file' = r.file
              /\ created_habits' = IF r.exc = NoError
                                   THEN Append(created_habits, habit_data)
                                   ELSE created_habits
              /\ call' = [NoCall EXCEPT
                             !.op = "create_habit",
                             !.events = <<"create_habit">>,
                             !.raised = r.exc # NoError,
                             !.accepted = IF r.exc = NoError THEN {"fallback"} ELSE {},
                             !.result = IF r.exc = NoError THEN <<habit_data>> ELSE <<>>]
    /\ next_uuid' = next_uuid + 1
    /\ UNCHANGED <<supabase_habits, supabase_stress_scan, scans_file,
                   models_loaded, stress_model_bundle, health_model, faulty,
                   created_scans,
                   scored, appends>>

offline_create_scan ==
    /\ next_uuid <= MaxId
    /\ \E scan_data \in ScanRecords(next_uuid), env \in Media :
          LET r == OfflineStorage_create_scan(scans_file, scan_data, env)
          IN  /\ scans_file' = r.file
              /\ created_scans' = IF r.exc = NoError
                                  THEN Append(created_scans, scan_data)
                                  ELSE created_scans
              /\ call' = [NoCall EXCEPT
                             !.op = "create_scan",
                             !.events = <<"create_scan">>,
                             !.raised = r.exc # NoError,
                             !.accepted = IF r.exc = NoError THEN {"fallback"} ELSE {},
                             !.result = IF r.exc = NoError THEN <<scan_data>> ELSE <<>>]
    /\ next_uuid' = next_uuid + 1
    /\ UNCHANGED <<supabase_habits, supabase_stress_scan, habits_file,
                   models_loaded, stress_model_bundle, health_model, faulty,
                   created_habits,
                   scored, appends>>

offline_get_habits ==
    /\ \E limit \in Limits, env \in Media :
          call' = [NoCall EXCEPT
                      !.op = "offline_get_habits", !.limit = limit,
                      !.events = <<"get_habits">>,
                      !.result = OfflineStorage_get_habits(habits_file, limit, env)]
    /\ UNCHANGED <<supabase_habits, supabase_stress_scan, habits_file,
                   scans_file, models_loaded, stress_model_bundle,
                   health_model, next_uuid, faulty, created_habits,
                   created_scans,
                   scored, appends>>

offline_get_scans ==
    /\ \E limit \in Limits, env \in Media :
          call' = [NoCall EXCEPT
                      !.op = "offline_get_scans", !.limit = limit,
                      !.events = <<"get_scans">>,
                      !.result = OfflineStorage_get_scans(scans_file, limit, env)]
    /\ UNCHANGED <<supabase_habits, supabase_stress_scan, habits_file,
                   scans_file, models_loaded, stress_model_bundle,
                   health_model, next_uuid, faulty, created_habits,
                   created_scans,
                   scored, appends>>

offline_get_latest_scan ==
    /\ \E env \in Media :
          call' = [NoCall EXCEPT
                      !.op = "offline_get_latest_scan", !.limit = 1,
                      !.events = <<"get_scans">>,
                      !.result = OfflineStorage_get_latest_scan(scans_file, env)]
    /\ UNCHANGED <<supabase_habits, supabase_stress_scan, habits_file,
                   scans_file, models_loaded, stress_model_bundle,
                   health_model, next_uuid, faulty, created_habits,
                   created_scans,
                   scored, appends>>

----------------------------------------------------------------------------
(* Calls on the global model_manager instance *)

MaxScored == 2    \* the scoring calls made in one run

\* feature dicts a caller hands to predict_stress: every combination of a
\* label, a jaw tension, a posture and values at and above the two
\* thresholds, and the dicts with an unlisted label, no keys, and nulls
StressInputs ==
    [emotion : {"happy", "sad", "angry", NoKeyStr}, emotion_confidence : {80},
     mouth_open : {3, 5}, eyebrow_raise : {10}, jaw_clench_score : {0, 50},
     posture_quality : {"good", "poor"}]
    \cup {Calm, Tense, Sparse, Nulls,
          [Calm EXCEPT !.eyebrow_raise = 20],
          [Calm EXCEPT !.emotion = "surprise", !.posture_quality = "slumped"]}

\* habit dicts a caller hands to predict_wellness
HabitInputs == [user_id : {"u1"}, sleep_hours : {6, 8, NoKey}]

NoScores == [stress |-> <<>>, wellness |-> <<>>, classified |-> <<>>]

\* the history after one more scoring call
Remember(kind, input, output) ==
    [scored EXCEPT ![kind] = Append(@, [input |-> input, output |-> output])]

predict_stress_call ==
    /\ Len(scored.stress) + Len(scored.wellness) < MaxScored
    /\ \E feature_dict \in StressInputs :
          LET r == predict_stress(feature_dict)
          IN  /\ call' = [NoCall EXCEPT !.op = "predict_stress",
                                        !.events = <<"predict_stress">>,
                                        !.sent = <<feature_dict>>,
                                        !.result = <<r>>]
              /\ scored' = Remember("stress", feature_dict, r)
    /\ UNCHANGED <<supabase_habits, supabase_stress_scan, habits_file,
                   scans_file, models_loaded, stress_model_bundle,
                   health_model, next_uuid, faulty, created_habits,
                   created_scans, appends>>

predict_wellness_call ==
    /\ Len(scored.stress) + Len(scored.wellness) < MaxScored
    /\ \E habit_inputs \in HabitInputs :
          LET r == predict_wellness(habit_inputs)
          IN  /\ call' = [NoCall EXCEPT !.op = "predict_wellness",
                                        !.events = <<"predict_wellness">>,
                                        !.sent = <<habit_inputs>>,
                                        !.result = <<r>>]
              /\ scored' = Remember("wellness", habit_inputs, r)
    /\ UNCHANGED <<supabase_habits, supabase_stress_scan, habits_file,
                   scans_file, models_loaded, stress_model_bundle,
                   health_model, next_uuid, faulty, created_habits,
                   created_scans, appends>>

----------------------------------------------------------------------------
(* is_network_error called on its own *)

\* type names of exceptions a caller hands over: the five of the handlers'
\* errors and of the indicators, httpx.ReadTimeout, a subclass name that
\* contains an indicator, and names that only resemble one
ErrorTypes ==
    { <<"Connect", "Error">>, <<"API", "Error">>, <<"Permission", "Error">>,
      <<"Timeout", "Error">>, <<"Connection", "Error">>,
      <<"Network", "Error">>, <<"DNS", "Error">>, <<"Read", "Timeout">>,
      <<"Proxy", "Connect", "Error">>, <<"connect", "error">>,
      <<"Error", "Connect">> }

\* str(exception): empty, the handlers' messages, and texts that name an
\* indicator in the middle, at the end, or only in part
ErrorMessages ==
    { <<>>, <<"getaddrinfo", "failed">>, <<"duplicate", "key">>,
      <<"Permission", "denied">>, <<"Connection", "timed", "out">>,
      <<"raised", "by", "httpx">>, <<"caused", "by", "DNS", "Error", "upstream">>,
      <<"DNS", "lookup", "Error">> }

Exceptions == [type : ErrorTypes, msg : ErrorMessages]

is_network_error_call ==
    /\ Len(scored.classified) < MaxScored
    /\ \E exception \in Exceptions :
          LET r == is_network_error(exception)
          IN  /\ call' = [NoCall EXCEPT !.op = "is_network_error",
                                        !.sent = <<exception>>,
                                        !.result = <<r>>]
              /\ scored' = Remember("classified", exception, r)
    /\ UNCHANGED <<supabase_habits, supabase_stress_scan, habits_file,
                   scans_file, models_loaded, stress_model_bundle,
                   health_model, next_uuid, faulty, created_habits,
                   created_scans, appends>>

----------------------------------------------------------------------------
(* api.utils.calculate_stress_trend *)

MaxLevels == 3    \* the longest list of levels drawn freely

StressLevels == {10, 50, 51, 80}

\* the lists of the dashboard: every list up to MaxLevels, and three longer
StressLevelLists ==
    UNION {[1..n -> StressLevels] : n \in 0..MaxLevels}
    \cup {<<10, 10, 10, 80, 80, 80>>, <<80, 80, 80, 10, 10, 10>>,
          <<50, 51, 49, 50>>}

\* mutant: a difference of exactly 0.5 between the halves counts as stable
calculate_stress_trend_inclusive(stress_levels) ==
    LET n == Len(stress_levels)
        n1 == n \div 2
        n2 == n - n \div 2
        first_half == Sum(SubSeq(stress_levels, 1, n1))
        second_half == Sum(SubSeq(stress_levels, n1 + 1, n))
    IN  IF n < 2 THEN "stable"
        ELSE IF 2 * Abs(second_half * n1 - first_half * n2) <= n1 * n2
        THEN "stable"
        ELSE IF second_half * n1 > first_half * n2 THEN "increasing"
        ELSE "decreasing"

\* the averages are compared as fractions: |b/n2 - a/n1| < 0.5 is
\* 2 * |b*n1 - a*n2| < n1*n2
calculate_stress_trend(stress_levels) ==
    LET n == Len(stress_levels)
        n1 == n \div 2
        n2 == n - n \div 2
        first_half == Sum(SubSeq(stress_levels, 1, n1))
        second_half == Sum(SubSeq(stress_levels, n1 + 1, n))
    IN  IF n < 2 THEN "stable"
        ELSE IF 2 * Abs(second_half * n1 - first_half * n2) < n1 * n2
        THEN "stable"
        ELSE IF second_half * n1 > first_half * n2 THEN "increasing"
        ELSE "decreasing"

calculate_stress_trend_call ==
    /\ \E stress_levels \in StressLevelLists :
          call' = [NoCall EXCEPT !.op = "calculate_stress_trend",
                                 !.sent = <<stress_levels>>,
                                 !.result = <<calculate_stress_trend(stress_levels)>>]
    /\ UNCHANGED <<supabase_habits, supabase_stress_scan, habits_file,
                   scans_file, models_loaded, stress_model_bundle,
                   health_model, next_uuid, faulty, created_habits,
                   created_scans, scored, appends>>

----------------------------------------------------------------------------
(* create_habit / create_scan issued by several workers on the same files: *)
(* OfflineStorage takes no lock, so the read and the write of one call are *)
(* two steps and the steps of other calls may come between them            *)

MaxWorkers == 2   \* threads or processes serving requests

Workers == 1..MaxWorkers

\* a worker outside create_*: nothing read, nothing to append
Idle == [pc |-> "idle", kind |-> "", items |-> <<>>, data |-> <<>>]

\* habits = self._read_file(self.habits_file)
create_habit_read(w) ==
    /\ appends[w].pc = "idle"
    /\ next_uuid <= MaxId
    /\ \E habit_data \in HabitRecords(next_uuid), env \in Media :
          appends' = [appends EXCEPT ![w] =
                         [pc |-> "read", kind |-> "habit",
                          items |-> _read_file(habits_file, env),
                          data |-> <<habit_data>>]]
    /\ next_uuid' = next_uuid + 1
    /\ UNCHANGED <<supabase_habits, supabase_stress_scan, habits_file,
                   scans_file, models_loaded, stress_model_bundle,
                   health_model, faulty, created_habits, created_scans,
                   call, scored>>

\* habits.append(habit_data); self._write_file(self.habits_file, habits)
create_habit_write(w) ==
    /\ appends[w].pc = "read"
    /\ appends[w].kind = "habit"
    /\ \E env \in Media :
          LET habit_data == appends[w].data[1]
              r == _write_file(habits_file, Append(appends[w].items, habit_data), env)
          IN  /\ habits_file' = r.file
              /\ created_habits' = IF r.exc = NoError
                                   THEN Append(created_habits, habit_data)
                                   ELSE created_habits
              /\ call' = [NoCall EXCEPT
                             !.op = "create_habit",
                             !.events = <<"create_habit">>,
                             !.raised = r.exc # NoError,
                             !.accepted = IF r.exc = NoError THEN {"fallback"} ELSE {},
                             !.result = IF r.exc = NoError THEN <<habit_data>> ELSE <<>>]
    /\ appends' = [appends EXCEPT ![w] = Idle]
    /\ UNCHANGED <<supabase_habits, supabase_stress_scan, scans_file,
                   models_loaded, stress_model_bundle, health_model,
                   next_uuid, faulty, created_scans, scored>>

\* scans = self._read_file(self.scans_file)
create_scan_read(w) ==
    /\ appends[w].pc = "idle"
    /\ next_uuid <= MaxId
    /\ \E scan_data \in ScanRecords(next_uuid), env \in Media :
          appends' = [appends EXCEPT ![w] =
                         [pc |-> "read", kind |-> "scan",
                          items |-> _read_file(scans_file, env),
                          data |-> <<scan_data>>]]
    /\ next_uuid' = next_uuid + 1
    /\ UNCHANGED <<supabase_habits, supabase_stress_scan, habits_file,
                   scans_file, models_loaded, stress_model_bundle,
                   health_model, faulty, created_habits, created_scans,
                   call, scored>>

\* scans.append(scan_data); self._write_file(self.scans_file, scans)
create_scan_write(w) ==
    /\ appends[w].pc = "read"
    /\ appends[w].kind = "scan"
    /\ \E env \in Media :
          LET scan_data == appends[w].data[1]
              r == _write_file(scans_file, Append(appends[w].items, scan_data), env)
          IN  /\ scans_file' = r.file
              /\ created_scans' = IF r.exc = NoError
                                  THEN Append(created_scans, scan_data)
                                  ELSE created_scans
              /\ call' = [NoCall EXCEPT
                             !.op = "create_scan",
                             !.events = <<"create_scan">>,
                             !.raised = r.exc # NoError,
                             !.accepted = IF r.exc = NoError THEN {"fallback"} ELSE {},
                             !.result = IF r.exc = NoError THEN <<scan_data>> ELSE <<>>]
    /\ appends' = [appends EXCEPT ![w] = Idle]
    /\ UNCHANGED <<supabase_habits, supabase_stress_scan, habits_file,
                   models_loaded, stress_model_bundle, health_model,
                   next_uuid, faulty, created_habits, scored>>

----------------------------------------------------------------------------
(* The service *)

\* a fresh deployment after import: the tables are empty, OfflineStorage()
\* has created the files holding [], and init_models() has run
Init ==
    /\ supabase_habits = <<>>
    /\ supabase_stress_scan = <<>>
    /\ habits_file = EmptyFile
    /\ scans_file = EmptyFile
    /\ \E m \in ModelStates :
          /\ models_loaded = m.loaded
          /\ stress_model_bundle = m.stress
          /\ health_model = m.health
    /\ next_uuid = 1
    /\ faulty = FALSE
    /\ created_habits = <<>>
    /\ created_scans = <<>>
    /\ call = NoCall
    /\ scored = NoScores
    /\ appends = [w \in Workers |-> Idle]

Next ==
    \/ habits
    \/ scan
    \/ get_scans
    \/ get_habits
    \/ get_latest_scan
    \/ offline_create_habit
    \/ offline_create_scan
    \/ offline_get_habits
    \/ offline_get_scans
    \/ offline_get_latest_scan

Spec == Init /\ [][Next]_vars

\* The habit calls and the scan calls share no table and no file: each
\* half of the service is also checked on its own.
NextHabits ==
    \/ habits
    \/ get_habits
    \/ offline_create_habit
    \/ offline_get_habits
SpecHabits == Init /\ [][NextHabits]_vars

NextScans ==
    \/ scan
    \/ get_scans
    \/ get_latest_scan
    \/ offline_create_scan
    \/ offline_get_scans
    \/ offline_get_latest_scan
SpecScans == Init /\ [][NextScans]_vars

\* The scoring calls alone: they share nothing with the stores.
NextScoring ==
    \/ predict_stress_call
    \/ predict_wellness_call
SpecScoring == Init /\ [][NextScoring]_vars

\* Habit ingestion next to direct calls of the wellness engine.
NextWellness ==
    \/ habits
    \/ predict_wellness_call
SpecWellness == Init /\ [][NextWellness]_vars

NextClassify == is_network_error_call
SpecClassify == Init /\ [][NextClassify]_vars

NextTrend == calculate_stress_trend_call
SpecTrend == Init /\ [][NextTrend]_vars

\* Appends by several workers, step by step.
NextWorkers ==
    \E w \in Workers :
        \/ create_habit_read(w)
        \/ create_habit_write(w)
        \/ create_scan_read(w)
        \/ create_scan_write(w)
SpecWorkers == Init /\ [][NextWorkers]_vars

\* The habit calls on a local medium that may fail: a disk that fills up or
\* loses its permissions, a network file system that times out.
InitFaulty ==
    /\ supabase_habits = <<>>
    /\ supabase_stress_scan = <<>>
    /\ habits_file = EmptyFile
    /\ scans_file = EmptyFile
    /\ \E m \in ModelStates :
          /\ models_loaded = m.loaded
          /\ stress_model_bundle = m.stress
          /\ health_model = m.health
    /\ next_uuid = 1
    /\ faulty = TRUE
    /\ created_habits = <<>>
    /\ created_scans = <<>>
    /\ call = NoCall
    /\ scored = NoScores
    /\ appends = [w \in Workers |-> Idle]
SpecFaulty == InitFaulty /\ [][NextHabits]_vars

\* The calls on offline_storage alone, on a medium that may fail.
NextFaultyStore ==
    \/ offline_create_habit
    \/ offline_create_scan
    \/ offline_get_habits
    \/ offline_get_scans
SpecFaultyStore == InitFaulty /\ [][NextFaultyStore]_vars


----------------------------------------------------------------------------
(* Properties *)

Holds(rows, r) == \E i \in 1..Len(rows) : rows[i] = r
HoldsId(rows, id) == \E i \in 1..Len(rows) : rows[i].id = id
Connectivity(e) == e # NoError /\ is_network_error(e)
Permanent(e) == e # NoError /\ ~is_network_error(e)
Max0(n) == IF n < 0 THEN 0 ELSE n

C2_HabitPermanentError ==
    [][(call'.op = "habits" /\ Permanent(call'.perr)) =>
          (~call'.success /\ habits_file' = habits_file)]_vars

C2_Witness ==
    /\ call.op = "habits"
    /\ call.perr = APIError
    /\ ~call.success
    /\ call.message = "Error saving habit"

\* C3 (as claimed): when the insert of scan() for a user fails with a
\* connectivity error, the entry that was sent to Supabase (same id, same
\* scanned_at) is in stress_scans.json and the call answers success.
C3_ScanFallsBack ==
    (call.op = "scan" /\ call.user_id # "" /\ Connectivity(call.perr)) =>
        /\ call.success
        /\ Holds(scans_file.data, call.sent[1])

\* C4 (as claimed): scan() for a user answers success only if exactly one
\* of the two stores holds the scan; after a permanent error of the insert
\* it does not answer success.
C4_ScanStoredOnce ==
    (call.op = "scan" /\ call.user_id # "") =>
        /\ call.success =>
              (HoldsId(supabase_stress_scan, call.id)
                  # HoldsId(scans_file.data, call.id))
        /\ Permanent(call.perr) => ~call.success

\* C5: whenever habits() answers success, whatever the insert did, the
\* record with the returned id is in exactly one of the table habits and
\* habits.json.
C5_HabitStoredOnce ==
    (call.op = "habits" /\ call.success) =>
        (HoldsId(supabase_habits, call.id) # HoldsId(habits_file.data, call.id))

C5_Witness ==
    /\ call.op = "habits"
    /\ call.success
    /\ Connectivity(call.perr)
    /\ HoldsId(habits_file.data, call.id)
    /\ ~HoldsId(supabase_habits, call.id)
    /\ supabase_habits # <<>>

\* C6: get_scans and get_habits raise nothing and answer success (with a
\* possibly empty list), whatever the query, the fallback read and the
\* scoring of each record did.
C6_ListReadsNeverFail ==
    call.op \in {"get_scans", "get_habits"} =>
        (~call.raised /\ call.success /\ call.status = 200)

C6_Witness ==
    /\ call.op = "get_habits"
    /\ call.perr = APIError
    /\ supabase_habits # <<>>
    /\ call.success
    /\ call.data = <<>>

\* C7 (as claimed): get_latest_scan raises nothing; when its query fails
\* with a connectivity error it answers success with the most recent scan of
\* stress_scans.json, or with no scan when the file holds none.
C7_LatestScanNeverFails ==
    call.op = "get_latest_scan" =>
        /\ ~call.raised
        /\ Connectivity(call.perr) =>
              LET latest == OfflineStorage_get_latest_scan(scans_file, Healthy)
              IN  /\ call.success
                  /\ Len(call.data) = Len(latest)
                  /\ latest # <<>> => call.data[1].id = latest[1].id

\* C8 (as claimed): for every limit, negative ones included (a negative
\* limit admitting no record), get_habits / get_scans of OfflineStorage, and
\* the endpoints when they are served from it, return at most limit records.
C8_AtMostLimit ==
    /\ call.op \in {"offline_get_habits", "offline_get_scans"} =>
          Len(call.result) <= Max0(call.limit)
    /\ (call.op \in {"get_habits", "get_scans"} /\ Connectivity(call.perr)) =>
          Len(call.data) <= Max0(call.limit)

\* result is the min(limit, n) rows of greatest sort key, greatest first
Sorted(rows, key) ==
    \A i \in 1..(Len(rows) - 1) :
        sort_key(rows[i], key) >= sort_key(rows[i + 1], key)

TopOf(result, rows, key, limit) ==
    /\ Len(result) = Min(limit, Len(rows))
    /\ Sorted(result, key)
    /\ \A i \in 1..Len(result) : Holds(rows, result[i])
    /\ \A i, j \in 1..Len(result) : i # j => result[i] # result[j]
    /\ \A i \in 1..Len(rows) :
          ~Holds(result, rows[i]) =>
              \A j \in 1..Len(result) :
                  sort_key(result[j], key) >= sort_key(rows[i], key)

\* the formatted items are some of the rows, in the order of the rows
KeepsOrder(data, rows) ==
    /\ \A i \in 1..(Len(data) - 1) : data[i].timestamp >= data[i + 1].timestamp
    /\ \E pos \in [1..Len(data) -> 1..Len(rows)] :
          /\ \A i \in 1..Len(data) : data[i].id = rows[pos[i]].id
          /\ \A i \in 1..(Len(data) - 1) : pos[i] < pos[i + 1]

----------------------------------------------------------------------------
(* Scoring *)

StoresAndModels ==
    <<supabase_habits, supabase_stress_scan, habits_file, scans_file,
      models_loaded, stress_model_bundle, health_model>>

SameResult(history) ==
    \A i, j \in 1..Len(history) :
        history[i].input = history[j].input =>
            history[i].output = history[j].output

Scores(f) ==
    /\ models_loaded
    /\ stress_model_bundle
    /\ f.jaw_clench_score # Null
    /\ f.mouth_open # Null
    /\ f.eyebrow_raise # Null

\* the score of the formula, in tenths; a missing number counts as 0
FormulaScore(f) ==
    LET emotion_term == CASE f.emotion = "happy" -> 100
                          [] f.emotion = "neutral" -> 300
                          [] f.emotion = "sad" -> 500
                          [] f.emotion = "fear" -> 700
                          [] f.emotion = "angry" -> 800
                          [] OTHER -> 300
        posture_term == CASE f.posture_quality = "good" -> 50
                          [] f.posture_quality = "fair" -> 150
                          [] f.posture_quality = "poor" -> 250
                          [] OTHER -> 150
        jaw == IF f.jaw_clench_score = NoKey THEN 0 ELSE f.jaw_clench_score
    IN  emotion_term + 3 * jaw + posture_term
        + (IF f.mouth_open # NoKey /\ f.mouth_open > 3 THEN 50 ELSE 0)
        + (IF f.eyebrow_raise # NoKey /\ f.eyebrow_raise > 10 THEN 50 ELSE 0)

FormulaTier(score) ==
    IF score < 350 THEN "low" ELSE IF score < 600 THEN "medium" ELSE "high"

C13_ConfidenceRange ==
    call.op = "predict_stress" =>
        /\ call.result[1].stress_confidence >= 700
        /\ call.result[1].stress_confidence <= 950
        /\ call.result[1].stress_prediction \in {"low", "medium", "high"}

\* C14 (as claimed): calculate_stress_trend gives increasing for
\* [10,10,10,80,80,80], decreasing for [80,80,80,10,10,10], stable for
\* [50,51,49,50], and stable for every list of one level.
C14_TrendExamples ==
    call.op = "calculate_stress_trend" =>
        LET levels == call.sent[1]
            trend == call.result[1]
        IN  /\ levels = <<10, 10, 10, 80, 80, 80>> => trend = "increasing"
            /\ levels = <<80, 80, 80, 10, 10, 10>> => trend = "decreasing"
            /\ levels = <<50, 51, 49, 50>> => trend = "stable"
            /\ Len(levels) = 1 => trend = "stable"

\* the health model is not loaded, or its predict() throws
Degraded == ~models_loaded \/ health_model \in {"none", "throws"}

\* C15: while the health model is not loaded or its call throws,
\* predict_wellness raises nothing and returns wellness_score 50 with
\* confidence 0, and habits() still scores and answers success once a store
\* has accepted the record.
C15_WellnessFailsSoft ==
    Degraded =>
        /\ call.op = "predict_wellness" =>
              /\ ~call.raised
              /\ call.result = <<[wellness_score |-> 50, wellness_confidence |-> 0]>>
        /\ (call.op = "habits" /\ call.accepted # {}) =>
              /\ call.success
              /\ ~call.raised
              /\ \E i \in 1..Len(call.events) : call.events[i] = "predict_wellness"

C15_Witness ==
    /\ health_model = "throws"
    /\ call.op = "habits"
    /\ call.accepted = {"fallback"}
    /\ call.success
    /\ Len(scored.wellness) = 1
    /\ scored.wellness[1].output.wellness_score = 50

DerivedFields == {"stressPrediction", "stressConfidence", "wellness_score"}

NoDerivedField(rows) ==
    \A i \in 1..Len(rows) : (DOMAIN rows[i]) \cap DerivedFields = {}

\* every item carries the score of the stored features of its row
Recomputed(data, rows) ==
    \A i \in 1..Len(data) :
        \E j \in 1..Len(rows) :
            LET prediction == predict_stress(scan_features(rows[j]))
            IN  /\ rows[j].id = data[i].id
                /\ data[i].stressPrediction = prediction.stress_prediction
                /\ data[i].stressConfidence = prediction.stress_confidence

\* C16: no row of the tables habits and stress_scan and no record of
\* habits.json and stress_scans.json has a field stressPrediction,
\* stressConfidence or wellness_score; the record scan() and habits() send to
\* the insert has none; and each item get_scans answers carries the score
\* computed from the stored features of its row.
C16_ScoresNotPersisted ==
    /\ NoDerivedField(supabase_habits)
    /\ NoDerivedField(supabase_stress_scan)
    /\ NoDerivedField(habits_file.data)
    /\ NoDerivedField(scans_file.data)
    /\ call.op \in {"scan", "habits"} => NoDerivedField(call.sent)
    /\ (call.op = "get_scans" /\ call.perr = NoError) =>
          Recomputed(call.data, supabase_stress_scan)
    /\ (call.op = "get_scans" /\ Connectivity(call.perr)) =>
          Recomputed(call.data, scans_file.data)

C16_Witness ==
    /\ call.op = "get_scans"
    /\ call.perr = NoError
    /\ Len(supabase_stress_scan) = 1
    /\ Len(call.data) = 1
    /\ call.data[1].stressPrediction = "high"
    /\ call.data[1].stressConfidence = 950
    /\ supabase_habits # <<>>

----------------------------------------------------------------------------
(* Concurrent appends *)

\* C17 (as claimed): once every create_habit / create_scan issued by the
\* workers has returned, whatever the order of their reads and writes,
\* every record they appended is in its file.
C17_NoLostUpdate ==
    (\A w \in Workers : appends[w].pc = "idle") =>
        /\ \A i \in 1..Len(created_habits) :
              Holds(habits_file.data, created_habits[i])
        /\ \A i \in 1..Len(created_scans) :
              Holds(scans_file.data, created_scans[i])

----------------------------------------------------------------------------
(* Identity of a habit record *)

\* C18 (as claimed): in one call of habits() the id and created_at are
\* assigned once: the records the call appends to habits.json, the outer
\* handler's included, are the body it sent to the Supabase insert, and the
\* habit_id it answers is the id of that body.
C18_HabitIdAssignedOnce ==
    [][call'.op = "habits" =>
          /\ \A i \in (Len(created_habits) + 1)..Len(created_habits') :
                /\ created_habits'[i].id = call'.sent[1].id
                /\ created_habits'[i].created_at = call'.sent[1].created_at
          /\ call'.success => call'.id = call'.sent[1].id]_vars

----------------------------------------------------------------------------
(* Permanent errors on the read path, and the order of an ingestion call *)

\* C19 (as claimed): when the query of get_scans / get_habits fails with an
\* error that is not a connectivity error, the call does not answer success
\* (the error reaches the caller) and OfflineStorage is not read.
C19_ReadPermanentPropagates ==
    (call.op \in {"get_scans", "get_habits"} /\ Permanent(call.perr)) =>
        /\ call.raised \/ ~call.success
        /\ \A i \in 1..Len(call.events) :
              call.events[i] \notin {"get_scans", "get_habits"}

Scoring(event) == event \in {"predict_stress", "predict_wellness"}

\* C20 (as claimed): in habits() and scan() every call of the scoring engine
\* comes after the insert into Supabase was attempted, and a store has
\* accepted the record of the call.
C20_ScoreAfterWrite ==
    call.op \in {"habits", "scan"} =>
        \A i \in 1..Len(call.events) :
            Scoring(call.events[i]) =>
                /\ \E j \in 1..(i - 1) : call.events[j] = "insert"
                /\ call.accepted # {}

----------------------------------------------------------------------------
(* The two stores on the read path *)

IdsFrom(data, rows) == \A i \in 1..Len(data) : HoldsId(rows, data[i].id)

ReadsFallback(events) ==
    \E i \in 1..Len(events) : events[i] \in {"get_scans", "get_habits"}

\* C21: get_scans and get_habits query Supabase first and read
\* OfflineStorage exactly when that query failed with a connectivity error;
\* after a successful query (empty or not) every item answered comes from
\* the table and nothing was read from the file, and after a connectivity
\* error every item comes from the file.
C21_OneStorePerRead ==
    call.op \in {"get_scans", "get_habits"} =>
        LET table == IF call.op = "get_scans" THEN supabase_stress_scan
                     ELSE supabase_habits
            file == IF call.op = "get_scans" THEN scans_file ELSE habits_file
        IN  /\ call.events[1] = "select"
            /\ ReadsFallback(call.events) <=> Connectivity(call.perr)
            /\ call.perr = NoError =>
                  (IdsFrom(call.data, table) /\ call.result = <<>>)
            /\ Connectivity(call.perr) => IdsFrom(call.data, file.data)

C21_Witness ==
    /\ call.op = "get_habits"
    /\ call.perr = NoError
    /\ call.limit = 2
    /\ Len(supabase_habits) = 1
    /\ Len(habits_file.data) = 1
    /\ Len(call.data) = 1
    /\ ~ReadsFallback(call.events)

StaysInFallback(created, file, table) ==
    \A i \in 1..Len(created) :
        /\ Holds(file.data, created[i])
        /\ ~HoldsId(table, created[i].id)

OmitsFallback(data, created) ==
    \A i \in 1..Len(created) : ~HoldsId(data, created[i].id)

----------------------------------------------------------------------------
(* What a habit response tells *)

\* C23 (as claimed): two successful calls of habits() with the same
\* submission and the same models, one accepted by Supabase and one by
\* OfflineStorage, answer alike: same success flag and same message (the
\* habit_id being the id each was assigned; no score is part of
\* HabitResponse).
C23_StoreNotRevealed ==
    [][(/\ call.op = "habits" /\ call'.op = "habits"
        /\ call.success /\ call'.success
        /\ call.user_id = call'.user_id
        /\ call.accepted # call'.accepted) =>
          call'.message = call.message]_vars

----------------------------------------------------------------------------
(* The collections of OfflineStorage on a medium that may fail *)

\* C24 (as claimed): after every call, failed reads of the file included,
\* habits.json holds exactly the records create_habit has returned, in the
\* order of the calls, and stress_scans.json those of create_scan; a
\* create_habit leaves stress_scans.json as it was and a create_scan leaves
\* habits.json as it was.
C24_FallbackAppendOnly ==
    [][/\ _read_file(habits_file', Healthy) = created_habits'
       /\ _read_file(scans_file', Healthy) = created_scans'
       /\ call'.op = "create_habit" => scans_file' = scans_file
       /\ call'.op = "create_scan" => habits_file' = habits_file]_vars

----------------------------------------------------------------------------
(* predict_stress on records with missing features *)

\* the record with every absent or null feature replaced by the value the
\* claim names for it: a label scored 30, a posture scored 15, a number 0
WithDefaults(f) ==
    [f EXCEPT !.emotion = IF @ \in {NoKeyStr, NullStr} THEN "neutral" ELSE @,
              !.posture_quality = IF @ \in {NoKeyStr, NullStr} THEN "unknown" ELSE @,
              !.jaw_clench_score = IF @ \in {NoKey, Null} THEN 0 ELSE @,
              !.mouth_open = IF @ \in {NoKey, Null} THEN 0 ELSE @,
              !.eyebrow_raise = IF @ \in {NoKey, Null} THEN 0 ELSE @]

\* C25 (as claimed): predict_stress returns, for a record with absent or
\* null features, what it returns for the same record with the neutral
\* defaults supplied (label scored 30, posture scored 15, numbers 0).
C25_MissingFeaturesDefault ==
    call.op = "predict_stress" =>
        call.result[1] = predict_stress(WithDefaults(call.sent[1]))

\* C26 (as claimed): a score of exactly 35 is given the tier low and a score
\* of exactly 60 the tier medium, the lower of the two tiers that meet there.
C26_BoundaryGoesLow ==
    (call.op = "predict_stress" /\ Scores(call.sent[1])) =>
        LET score == FormulaScore(call.sent[1])
            tier == call.result[1].stress_prediction
        IN  /\ score = 350 => tier = "low"
            /\ score = 600 => tier = "medium"

\* the distance of a score to the nearer of the boundaries 35 and 60, in tenths
BoundaryDistance(score) == Min(Abs(score - 350), Abs(score - 600))

\* C27 (as claimed): of two scored records in the same tier, the one whose
\* score lies at least as far from the nearer boundary (35 or 60) has at
\* least the confidence of the other.
C27_ConfidenceGrowsFromBoundary ==
    \A i, j \in 1..Len(scored.stress) :
        LET a == scored.stress[i]
            b == scored.stress[j]
        IN  (/\ Scores(a.input)
             /\ Scores(b.input)
             /\ a.output.stress_prediction = b.output.stress_prediction
             /\ BoundaryDistance(FormulaScore(a.input))
                    <= BoundaryDistance(FormulaScore(b.input))) =>
                a.output.stress_confidence <= b.output.stress_confidence

----------------------------------------------------------------------------
(* calculate_stress_trend on every list *)

\* the total of levels[from..to]
Total(levels, from, to) ==
    LET part[i \in (from - 1)..to] ==
            IF i = from - 1 THEN 0 ELSE part[i - 1] + levels[i]
    IN  part[to]

\* 2 * n1 * n2 * (mean(second) - mean(first)) and n1 * n2, where the first
\* half is the first floor(n/2) levels: the difference of the means is at
\* least 0.5 exactly when the first number is at least the second
TwiceScaledRise(levels) ==
    LET n == Len(levels)
        n1 == n \div 2
    IN  2 * (Total(levels, n1 + 1, n) * n1 - Total(levels, 1, n1) * (n - n1))
ScaledOne(levels) == (Len(levels) \div 2) * (Len(levels) - Len(levels) \div 2)

\* C28: calculate_stress_trend returns one of the three trends for every
\* list; stable for fewer than 2 levels; otherwise stable iff the means of
\* the halves differ by less than 0.5, increasing iff the second mean is
\* at least 0.5 higher, decreasing iff it is at least 0.5 lower.
C28_TrendRule ==
    call.op = "calculate_stress_trend" =>
        LET levels == call.sent[1]
            trend == call.result[1]
            rise == TwiceScaledRise(levels)
            one == ScaledOne(levels)
        IN  /\ trend \in {"stable", "increasing", "decreasing"}
            /\ Len(levels) < 2 => trend = "stable"
            /\ Len(levels) >= 2 =>
                  /\ trend = "stable" <=> (rise < one /\ rise > -one)
                  /\ trend = "increasing" <=> rise >= one
                  /\ trend = "decreasing" <=> rise <= -one

\* a list of odd length whose second mean is exactly 0.5 higher
C28_Witness ==
    /\ call.op = "calculate_stress_trend"
    /\ call.sent[1] = <<50, 50, 51>>
    /\ TwiceScaledRise(call.sent[1]) = ScaledOne(call.sent[1])
    /\ call.result[1] = "increasing"

----------------------------------------------------------------------------
(* is_network_error on every error *)

\* the seven indicators, as the claim lists them
SevenIndicators ==
    { <<"Connect", "Error">>, <<"getaddrinfo">>, <<"httpx">>,
      <<"Connection", "Error">>, <<"Timeout", "Error">>,
      <<"Network", "Error">>, <<"DNS", "Error">> }

\* part is text[i+1..j] for some i <= j
Occurs(part, text) ==
    \E i \in 0..Len(text) : \E j \in i..Len(text) : SubSeq(text, i + 1, j) = part

NamesIndicator(e) ==
    \E indicator \in SevenIndicators :
        Occurs(indicator, e.type) \/ Occurs(indicator, e.msg)

\* C29: is_network_error(e) is true exactly when one of the seven
\* indicators occurs in e's type name or in e's message, and two
\* inspections of the same error give the same answer.
C29_Classification ==
    \A i, j \in 1..Len(scored.classified) :
        LET a == scored.classified[i]
            b == scored.classified[j]
        IN  /\ a.output <=> NamesIndicator(a.input)
            /\ a.input = b.input => a.output = b.output

\* the same error inspected twice: its type names no indicator, its message
\* names one in the middle
C29_Witness ==
    /\ call.op = "is_network_error"
    /\ Len(scored.classified) = 2
    /\ scored.classified[1].input = scored.classified[2].input
    /\ scored.classified[1].input.type = <<"API", "Error">>
    /\ scored.classified[1].input.msg = <<"caused", "by", "DNS", "Error", "upstream">>
    /\ scored.classified[1].output
    /\ scored.classified[2].output

----------------------------------------------------------------------------
(* overallStress in get_scans and get_latest_scan *)

\* C30: every item get_scans and get_latest_scan answer has overallStress 20
\* exactly when its stressPrediction is low, 50 exactly when it is medium
\* and 80 for any other prediction; while the models are not loaded the
\* prediction is unknown with confidence 0 and overallStress is 80; and the
\* models are loaded only when both the stress and the health artifact are.
C30_OverallStress ==
    /\ models_loaded => (stress_model_bundle /\ health_model # "none")
    /\ call.op \in {"get_scans", "get_latest_scan"} =>
          \A i \in 1..Len(call.data) :
              LET item == call.data[i]
              IN  /\ item.overallStress = 20 <=> item.stressPrediction = "low"
                  /\ item.overallStress = 50 <=> item.stressPrediction = "medium"
                  /\ item.stressPrediction \notin {"low", "medium"} =>
                        item.overallStress = 80
                  /\ ~models_loaded => /\ item.stressPrediction = "unknown"
                                       /\ item.stressConfidence = 0
                                       /\ item.overallStress = 80

\* the stress artifact is loaded, the health artifact is not: the latest scan
\* is answered as unknown, 0, 80
C30_Witness ==
    /\ call.op = "get_latest_scan"
    /\ stress_model_bundle
    /\ health_model = "none"
    /\ ~models_loaded
    /\ Len(call.data) = 1
    /\ call.data[1].stressPrediction = "unknown"
    /\ call.data[1].stressConfidence = 0
    /\ call.data[1].overallStress = 80

====
